---- MODULE Spec2Model ----
(***************************************************************************)
(* louis-log: the record pipeline of the default-exported Logger class of  *)
(* src/src/index.ts (lines 303-800): sendLog, logToFile, extractBuffer,     *)
(* sendWebhook and the asynchronous exit routine.                           *)
(*                                                                          *)
(* JavaScript runs every handler to completion, so one action is one call  *)
(* of a print method, one invocation of exit up to its first suspension    *)
(* point, one settled fetch promise (its .then/.catch callback), or the    *)
(* firing of the 500 ms timer that calls process.exit().                    *)
(***************************************************************************)
EXTENDS Integers, Sequences, FiniteSets, TLC

\* ------------------------------------------------------------------ bounds
\* calls of the public print methods after construction
MaxLogs == 5
\* largest storageSettings.batch a configuration may hold
MaxBatch == 3
\* invocations of exit() by the caller or by a signal / beforeExit hook
MaxExits == 2
\* nested calls of sendLog the JavaScript stack holds before a further call
\* throws a RangeError
StackLimit == 3

\* ------------------------------------------------------- program constants
\* the embed count at which sendWebhook posts (and above which it discards)
WebhookFull == 8

\* level the print methods of the model are called with: info()/log();
\* fatal/error/warn/success take the same path through sendLog, and the
\* constructor supplies SUCCESS and (ignored by the file sink) DEBUG records
UserLevels == {"INFO"}

BatchSizes == 1..MaxBatch

\* the instant of construction: the fields dateFormat reads
StartTime == [yyyy |-> 2024, mm |-> 6, dd |-> 20, HH |-> 17, MM |-> 39, ss |-> 5]

\* the instants new Date() may return: the construction, a minute later
\* and a day of the next year
Times ==
    { StartTime,
      [StartTime EXCEPT !.MM = 40],
      [StartTime EXCEPT !.yyyy = 2025, !.dd = 21] }

\* storageSettings after the merge with the user's settings
StorageChoices ==
    [path : {"./logs"}, splitBy : {"day"},
     stratagy : {"single", "batch"}, batch : BatchSizes,
     txt : BOOLEAN, json : BOOLEAN, ignoreLevels : {{"DEBUG"}}]

\* webhookSettings after the merge; url "undefined" is the default
WebhookChoices ==
    { [enable |-> FALSE, url |-> "undefined", form |-> "discord"],
      [enable |-> TRUE,  url |-> "undefined", form |-> "discord"],
      [enable |-> TRUE,  url |-> "url",       form |-> "discord"] }

\* formatSettings after the merge (the defaults)
FormatChoices == { [stdoutEnable |-> TRUE, ignoreLevels |-> {"DEBUG"}] }

\* the configurations explored: every storage choice without a webhook, and
\* the webhook choices with both formats written and a batch size on either
\* side of the test batch > 1 of logToFile
Configs ==
    { c \in StorageChoices \X WebhookChoices :
        \/ ~c[2].enable
        \/ c[1].txt /\ c[1].json /\ c[1].batch <= 2 }

VARIABLES
    formatSettings,   \* this.formatSettings
    storageSettings,  \* this.storageSettings
    webhookSettings,  \* this.webhookSettings
    logBuffer,        \* this.logBuffer: items {logTXT, logJSONString}
    webhookBuffer,    \* this.webhookBuffer: embeds
    nextId,           \* number of sendLog calls so far (identifies a record)
    stdout,           \* lines console.log printed for records
    accepted,         \* records handed to logToFile, in order
    flushes,          \* file operations: single writes and extractBuffer calls
    pushed,           \* embeds ever pushed on webhookBuffer, in order
    posts,            \* fetch() calls: body, origin and how they settled
    rateReports,      \* fatalRate() calls: record id and what it reports
    overflows,        \* times sendWebhook took the length > 8 branch
    logCalls,         \* calls of the print methods after construction
    exitCalls,        \* invocations of exit(), the 'exit' hook included
    timers,           \* pending setTimeout(process.exit, 500) timers
    stopped,          \* process.exit() has run
    now,              \* what new Date() returns
    stderr,           \* console.error calls of the catch block of sendLog
    dispatched,       \* the records sendLog was entered with, in order
    diskFails,        \* fs.mkdirSync would throw (the directory is missing
                      \* and cannot be created)
    txtLog            \* the arguments and the result of the last call of
                      \* formTxtLog that was looked at

vars == <<formatSettings, storageSettings, webhookSettings, logBuffer,
          webhookBuffer, nextId, stdout, accepted, flushes, pushed, posts,
          rateReports, overflows, logCalls, exitCalls, timers, stopped,
          now, stderr, dispatched, diskFails, txtLog>>

\* ------------------------------------------------------------ the logger
\* the mutable part of the Logger and of its environment as one record, so
\* that the methods below are functions from state to state. depth is the
\* number of sendLog frames on the stack and thrown says that an exception
\* is propagating; both are at rest between two handlers
Cur ==
    [logBuffer |-> logBuffer, webhookBuffer |-> webhookBuffer,
     nextId |-> nextId, stdout |-> stdout, accepted |-> accepted,
     flushes |-> flushes, pushed |-> pushed, posts |-> posts,
     rateReports |-> rateReports, overflows |-> overflows, timers |-> timers,
     stderr |-> stderr, dispatched |-> dispatched, now |-> now,
     diskFails |-> diskFails, depth |-> 0,
     thrown |-> FALSE]

Fresh(t) ==
    [logBuffer |-> <<>>, webhookBuffer |-> <<>>, nextId |-> 1,
     stdout |-> <<>>, accepted |-> <<>>, flushes |-> <<>>, pushed |-> <<>>,
     posts |-> <<>>, rateReports |-> <<>>, overflows |-> 0, timers |-> 0,
     stderr |-> 0, dispatched |-> <<>>, now |-> t, diskFails |-> FALSE,
     depth |-> 0,
     thrown |-> FALSE]

Commit(s) ==
    /\ logBuffer' = s.logBuffer
    /\ webhookBuffer' = s.webhookBuffer
    /\ nextId' = s.nextId
    /\ stdout' = s.stdout
    /\ accepted' = s.accepted
    /\ flushes' = s.flushes
    /\ pushed' = s.pushed
    /\ posts' = s.posts
    /\ rateReports' = s.rateReports
    /\ overflows' = s.overflows
    /\ timers' = s.timers
    /\ stderr' = s.stderr
    /\ dispatched' = s.dispatched

\* formTxtLog: the text line of a record
formTxtLog(rec) == [fmt |-> "txt", id |-> rec.id, level |-> rec.level]

\* JSON.stringify(logJSON): the JSON line of a record
logJSONString(rec) == [fmt |-> "json", id |-> rec.id, level |-> rec.level]

\* newEmbed: the webhook item of a record
newEmbed(rec) == [id |-> rec.id, level |-> rec.level]

\* (a drain that takes the newest item first: pop() for shift())
Unpacked_lifo(buf, field) == [i \in 1..Len(buf) |-> buf[Len(buf) + 1 - i][field]]

\* the loop of extractBuffer: shift() every item, oldest first
Unpacked(buf, field) == [i \in 1..Len(buf) |-> buf[i][field]]

RECURSIVE sendLog(_, _, _, _, _)

\* dateFormat(currentTime, mask) for the masks of generatePaths: the named
\* fields of the instant, joined by "/"
dateFormat(t, fields) ==
    IF Len(fields) = 1
    THEN <<[mask |-> fields[1], value |-> t[fields[1]]]>>
    ELSE <<[mask |-> fields[1], value |-> t[fields[1]]], "/">>
           \o [i \in 1..(2 * Len(fields) - 3) |->
                 IF i % 2 = 1
                 THEN [mask |-> fields[(i + 3) \div 2],
                       value |-> t[fields[(i + 3) \div 2]]]
                 ELSE "/"]

\* one case of the switch of generatePaths: the directory is the base path
\* and the fields of dirMask, the file stem the field stemMask and a dot
splitCase(st, t, dirMask, stemMask) ==
    LET dirLocation ==
          IF dirMask = <<>> THEN <<st.path, "/">>
          ELSE <<st.path, "/">> \o dateFormat(t, dirMask) \o <<"/">>
    IN [dirLocation |-> dirLocation,
        logLocation |-> dirLocation \o dateFormat(t, <<stemMask>>) \o <<".">>]

\* generatePaths(currentTime): dirLocation and logLocation as sequences of
\* the pieces the template strings join, and the logger state (the default
\* case calls this.error)
generatePaths(fs, st, ws, s, t) ==
    CASE st.splitBy = "don't split" ->
           [s |-> s, dirLocation |-> <<st.path, "/">>,
            logLocation |-> <<st.path, "/">> \o <<"logs.">>]
      [] st.splitBy = "year" ->
           [s |-> s, dirLocation |-> <<st.path, "/">>,
            logLocation |-> dateFormat(t, <<"yyyy">>) \o <<".">>]
      [] st.splitBy = "month" ->
           [s |-> s] @@ splitCase(st, t, <<"yyyy">>, "mm")
      [] st.splitBy = "day" ->
           [s |-> s] @@ splitCase(st, t, <<"yyyy", "mm">>, "dd")
      [] st.splitBy = "hour" ->
           [s |-> s] @@ splitCase(st, t, <<"yyyy", "mm", "dd">>, "HH")
      [] st.splitBy = "minute" ->
           [s |-> s] @@ splitCase(st, t, <<"yyyy", "mm", "dd", "HH">>, "MM")
      [] st.splitBy = "second" ->
           [s |-> s] @@ splitCase(st, t, <<"yyyy", "mm", "dd", "HH", "MM">>, "ss")
      [] OTHER ->
           [s |-> sendLog(fs, st, ws, s, "ERROR"),
            dirLocation |-> <<st.path>>, logLocation |-> <<>>]

\* the body of extractBuffer after the call of generatePaths (g is what it
\* returned): one write per enabled format of everything buffered. A flush
\* records who called it, the directory it ensured, the files it opened,
\* what it handed to the write streams and how many records the file sink
\* had accepted by then
writeBuffer(st, g, currentTime, by) ==
    IF g.s.thrown THEN g.s
    ELSE IF g.s.diskFails THEN [g.s EXCEPT !.thrown = TRUE]
    ELSE
    [g.s EXCEPT
       !.logBuffer = <<>>,
       !.flushes = Append(@,
          [by |-> by, kind |-> "extract", upto |-> Len(g.s.accepted),
           time |-> currentTime, dir |-> g.dirLocation,
           txtFile |-> g.logLocation \o <<"txt.log">>,
           jsonFile |-> g.logLocation \o <<"json.log">>,
           wroteTxt |-> st.txt, wroteJson |-> st.json,
           txt |-> IF st.txt THEN Unpacked(g.s.logBuffer, "logTXT") ELSE <<>>,
           json |-> IF st.json THEN Unpacked(g.s.logBuffer, "logJSONString")
                    ELSE <<>>])]

extractBuffer(fs, st, ws, s, currentTime, by) ==
    writeBuffer(st, generatePaths(fs, st, ws, s, currentTime), currentTime, by)

\* (a single write that appends the JSON line whether or not json is set)
writeRecord_anyJson(st, g, rec) ==
    IF g.s.thrown THEN g.s
    ELSE IF g.s.diskFails THEN [g.s EXCEPT !.thrown = TRUE]
    ELSE
    [g.s EXCEPT
       !.flushes = Append(@,
          [by |-> "logToFile", kind |-> "single", upto |-> Len(g.s.accepted),
           time |-> rec.time, dir |-> g.dirLocation,
           txtFile |-> g.logLocation \o <<"txt.log">>,
           jsonFile |-> g.logLocation \o <<"json.log">>,
           wroteTxt |-> st.txt, wroteJson |-> TRUE,
           txt |-> IF st.txt THEN <<formTxtLog(rec)>> ELSE <<>>,
           json |-> <<logJSONString(rec)>>])]

\* the else branch of logToFile after the call of generatePaths (g is what
\* it returned): write this record now
writeRecord(st, g, rec) ==
    IF g.s.thrown THEN g.s
    ELSE IF g.s.diskFails THEN [g.s EXCEPT !.thrown = TRUE]
    ELSE
    [g.s EXCEPT
       !.flushes = Append(@,
          [by |-> "logToFile", kind |-> "single", upto |-> Len(g.s.accepted),
           time |-> rec.time, dir |-> g.dirLocation,
           txtFile |-> g.logLocation \o <<"txt.log">>,
           jsonFile |-> g.logLocation \o <<"json.log">>,
           wroteTxt |-> st.txt, wroteJson |-> st.json,
           txt |-> IF st.txt THEN <<formTxtLog(rec)>> ELSE <<>>,
           json |-> IF st.json THEN <<logJSONString(rec)>> ELSE <<>>])]

\* the else branch of logToFile
writeSingle(fs, st, ws, s, rec) ==
    writeRecord(st, generatePaths(fs, st, ws, s, rec.time), rec)

\* (a flush test that waits for one record more than the batch size)
reachedBatch_late(bufferLength, st) == bufferLength > st.batch

\* if (bufferLength >= this.storageSettings.batch)
reachedBatch(bufferLength, st) == bufferLength >= st.batch

\* (a drain into the bucket of the instant of construction)
flushIfReached_startTime(fs, st, ws, s, rec) ==
    IF reachedBatch(Len(s.logBuffer), st)
    THEN extractBuffer(fs, st, ws, s, StartTime, "logToFile")
    ELSE s

\* the batch branch of logToFile after the push
flushIfReached(fs, st, ws, s, rec) ==
    IF reachedBatch(Len(s.logBuffer), st)
    THEN extractBuffer(fs, st, ws, s, rec.time, "logToFile")
    ELSE s

logToFile(fs, st, ws, s, rec) ==
    IF st.stratagy = "batch" /\ st.batch > 1
    THEN flushIfReached(fs, st, ws,
           [s EXCEPT !.accepted = Append(@, rec),
                     !.logBuffer = Append(@,
                        [logTXT |-> formTxtLog(rec),
                         logJSONString |-> logJSONString(rec)])],
           rec)
    ELSE writeSingle(fs, st, ws, [s EXCEPT !.accepted = Append(@, rec)], rec)

\* fetch(url, {body: JSON.stringify({embeds: this.webhookBuffer})}): the body
\* is serialised when fetch is called
fetch(s, by) ==
    [s EXCEPT !.posts = Append(@,
        [embeds |-> s.webhookBuffer, by |-> by, status |-> "pending"])]

\* fatalRate(message, data): about is the fetch it reports (0: an overflow)
fatalRate(fs, st, ws, s, about) ==
    sendLog(fs, st, ws,
            [s EXCEPT !.rateReports =
                         Append(@, [id |-> s.nextId, about |-> about])],
            "FATALRATE")

\* (a guard that names the public level)
rateLimited_fatal(logLevel) == logLevel = "FATAL"

\* if (logLevel == "FATALRATE") return
rateLimited(logLevel) == logLevel = "FATALRATE"

\* (a send one item early)
batchFull_early(buf) == Len(buf) = WebhookFull - 1

\* if (this.webhookBuffer.length == 8)
batchFull(buf) == Len(buf) = WebhookFull

\* if (this.webhookBuffer.length > 8)
batchOverflow(buf) == Len(buf) > WebhookFull

\* (a sink that posts to whatever the url field holds)
urlMissing_never(ws) == FALSE

\* if (this.webhookSettings.url == undefined) return
urlMissing(ws) == ws.url = "undefined"

\* (a batch that is never emptied)
cleared_never(s) == s

\* this.webhookBuffer = [] unless an exception is on its way
cleared(s) == IF s.thrown THEN s ELSE [s EXCEPT !.webhookBuffer = <<>>]

\* sendWebhook after the push
sendIfFull(fs, st, ws, s) ==
    IF batchOverflow(s.webhookBuffer)
    THEN cleared(fatalRate(fs, st, ws, [s EXCEPT !.overflows = @ + 1], 0))
    ELSE IF batchFull(s.webhookBuffer)
    THEN cleared(fetch(s, "sendWebhook"))
    ELSE s

sendWebhook(fs, st, ws, s, rec) ==
    IF rateLimited(rec.level) THEN s
    ELSE IF urlMissing(ws) THEN s
    ELSE IF ws.form # "discord" THEN sendLog(fs, st, ws, s, "ERROR")
    ELSE sendIfFull(fs, st, ws,
           [s EXCEPT !.webhookBuffer = Append(@, newEmbed(rec)),
                     !.pushed = Append(@, newEmbed(rec))])

\* (a console that prints every level)
stdoutAccepts_anyLevel(fs, logLevel) == fs.stdoutEnable

\* the test in front of console.log
stdoutAccepts(fs, logLevel) ==
    fs.stdoutEnable /\ logLevel \notin fs.ignoreLevels

\* (a file sink that listens to the ignore set of the console)
fileAccepts_formatIgnore(fs, st, logLevel) ==
    (st.json \/ st.txt) /\ logLevel \notin fs.ignoreLevels

\* the test in front of logToFile
fileAccepts(fs, st, logLevel) ==
    (st.json \/ st.txt) /\ logLevel \notin st.ignoreLevels

\* console.log(txtLog) under its test
toConsole(fs, s, rec) ==
    IF stdoutAccepts(fs, rec.level)
    THEN [s EXCEPT !.stdout = Append(@, formTxtLog(rec))]
    ELSE s

\* this.logToFile(...) under its test
toFile(fs, st, ws, s, rec) ==
    IF fileAccepts(fs, st, rec.level) THEN logToFile(fs, st, ws, s, rec) ELSE s

\* (a webhook sink that listens to the ignore set of the file sink)
toWebhook_ignoring(fs, st, ws, s, rec) ==
    IF s.thrown THEN s
    ELSE IF ws.enable /\ rec.level \notin st.ignoreLevels
    THEN sendWebhook(fs, st, ws, s, rec)
    ELSE s

\* this.sendWebhook(...) under its test, unless an exception is on its way
toWebhook(fs, st, ws, s, rec) ==
    IF s.thrown THEN s
    ELSE IF ws.enable THEN sendWebhook(fs, st, ws, s, rec)
    ELSE s

\* the end of sendLog at stack depth depth: the catch block prints to the
\* error stream, and the call returns normally
caught(s, depth) ==
    IF s.thrown
    THEN [s EXCEPT !.thrown = FALSE, !.stderr = @ + 1, !.depth = depth]
    ELSE [s EXCEPT !.depth = depth]

\* the try block of sendLog for the record rec
tried(fs, st, ws, s, rec) ==
    caught(toWebhook(fs, st, ws,
                     toFile(fs, st, ws, toConsole(fs, s, rec), rec), rec),
           s.depth - 1)

\* sendLog: a call that finds the stack full throws into its caller; an
\* exception raised inside the try block ends in the catch block
sendLog(fs, st, ws, s, logLevel) ==
    IF s.depth >= StackLimit THEN [s EXCEPT !.thrown = TRUE]
    ELSE tried(fs, st, ws,
               [s EXCEPT !.nextId = @ + 1, !.depth = @ + 1,
                         !.dispatched = Append(@,
                            [id |-> s.nextId, level |-> logLevel,
                             time |-> s.now])],
               [id |-> s.nextId, level |-> logLevel, time |-> s.now])

\* the constructor: success("Initialised Logger") and three debug() dumps
Constructed(fs, st, ws, t) ==
    sendLog(fs, st, ws,
      sendLog(fs, st, ws,
        sendLog(fs, st, ws,
          sendLog(fs, st, ws, Fresh(t), "SUCCESS"),
          "DEBUG"),
        "DEBUG"),
      "DEBUG")

\* (an exit that drains the file buffer only when it holds a full batch)
exitSync_fullOnly(fs, st, ws, s, by) ==
    LET s1 == IF st.stratagy = "batch" /\ Len(s.logBuffer) >= st.batch
              THEN [extractBuffer(fs, st, ws, s, s.now, by)
                      EXCEPT !.thrown = FALSE]
              ELSE s
    IN IF ws.url # "undefined" /\ Len(s1.webhookBuffer) > 0
       THEN fetch(s1, by)
       ELSE [s1 EXCEPT !.timers = @ + 1]

\* exit() up to its first suspension point: drain the file buffer, then
\* either post what the webhook buffer holds and await the response, or
\* start the timer. by is "exit" for a call from the running program and
\* "exitHook" for the call made by the listener of the 'exit' event, after
\* which the process ends without serving the event loop again
exitSync(fs, st, ws, s, by) ==
    LET s1 == IF st.stratagy = "batch"
              THEN [extractBuffer(fs, st, ws, s, s.now, by)
                      EXCEPT !.thrown = FALSE]
              ELSE s
    IN IF ws.url # "undefined" /\ Len(s1.webhookBuffer) > 0
       THEN fetch(s1, by)
       ELSE [s1 EXCEPT !.timers = @ + 1]

\* (callbacks without the .catch: a transport failure is not reported)
sendWebhookSettled_noCatch(fs, st, ws, s, p, outcome) ==
    LET s0 == [s EXCEPT !.posts[p].status = outcome] IN
    IF outcome = "error" THEN s0
    ELSE LET s1 == IF outcome # "204" THEN fatalRate(fs, st, ws, s0, p)
                   ELSE s0
         IN [s1 EXCEPT !.webhookBuffer = <<>>]

\* the .then / .catch callbacks of the fetch in sendWebhook
sendWebhookSettled(fs, st, ws, s, p, outcome) ==
    LET s0 == [s EXCEPT !.posts[p].status = outcome] IN
    IF outcome = "error" THEN fatalRate(fs, st, ws, s0, p)
    ELSE LET s1 == IF outcome # "204" THEN fatalRate(fs, st, ws, s0, p)
                   ELSE s0
         IN [s1 EXCEPT !.webhookBuffer = <<>>]

\* the .then / .catch callbacks of the fetch in exit, and the rest of exit
exitSettled(s, p, outcome) ==
    LET s0 == [s EXCEPT !.posts[p].status = outcome]
        s1 == IF outcome = "error" THEN s0
              ELSE [s0 EXCEPT !.webhookBuffer = <<>>]
    IN [s1 EXCEPT !.timers = @ + 1]

Outcomes == {"204", "other", "error"}

\* ---------------------------------------------------------------- actions
\* new Logger(settings) with settings drawn from cfgs, at StartTime
Started(cfgs) ==
    /\ \E c \in cfgs :
         /\ formatSettings = c[1]
         /\ storageSettings = c[2]
         /\ webhookSettings = c[3]
    /\ now = StartTime
    /\ diskFails = FALSE
    /\ txtLog = <<>>
    /\ LET s == Constructed(formatSettings, storageSettings, webhookSettings,
                            now)
       IN /\ logBuffer = s.logBuffer
          /\ webhookBuffer = s.webhookBuffer
          /\ nextId = s.nextId
          /\ stdout = s.stdout
          /\ accepted = s.accepted
          /\ flushes = s.flushes
          /\ pushed = s.pushed
          /\ posts = s.posts
          /\ rateReports = s.rateReports
          /\ overflows = s.overflows
          /\ timers = s.timers
          /\ stderr = s.stderr
          /\ dispatched = s.dispatched
    /\ logCalls = 0
    /\ exitCalls = 0
    /\ stopped = FALSE

Init == Started({<<f, c[1], c[2]>> : f \in FormatChoices, c \in Configs})

Settings == <<formatSettings, storageSettings, webhookSettings>>

\* a call of info()/log() or debug()
Log ==
    /\ ~stopped
    /\ logCalls < MaxLogs
    /\ \E logLevel \in UserLevels :
         Commit(sendLog(formatSettings, storageSettings, webhookSettings,
                        Cur, logLevel))
    /\ logCalls' = logCalls + 1
    /\ UNCHANGED <<Settings, exitCalls, stopped, now, diskFails, txtLog>>

\* exit(reason) called by the program or by a beforeExit/SIGINT/SIGTERM hook
Exit ==
    /\ ~stopped
    /\ exitCalls < MaxExits
    /\ Commit(exitSync(formatSettings, storageSettings, webhookSettings,
                       Cur, "exit"))
    /\ exitCalls' = exitCalls + 1
    /\ UNCHANGED <<Settings, logCalls, stopped, now, diskFails, txtLog>>

\* the fetch of sendWebhook settles
WebhookResponse ==
    /\ ~stopped
    /\ \E p \in DOMAIN posts, outcome \in Outcomes :
         /\ posts[p].status = "pending"
         /\ posts[p].by = "sendWebhook"
         /\ Commit(sendWebhookSettled(formatSettings, storageSettings,
                                      webhookSettings, Cur, p, outcome))
    /\ UNCHANGED <<Settings, logCalls, exitCalls, stopped, now, diskFails, txtLog>>

\* the fetch awaited by exit settles and exit runs on to its setTimeout
ExitResponse ==
    /\ ~stopped
    /\ \E p \in DOMAIN posts, outcome \in Outcomes :
         /\ posts[p].status = "pending"
         /\ posts[p].by = "exit"
         /\ Commit(exitSettled(Cur, p, outcome))
    /\ UNCHANGED <<Settings, logCalls, exitCalls, stopped, now, diskFails, txtLog>>

\* a timer of exit fires: process.exit() emits 'exit', whose hook runs exit()
\* once more (only its synchronous part can still run), and the process ends
ProcessExit ==
    /\ ~stopped
    /\ timers > 0
    /\ Commit(exitSync(formatSettings, storageSettings, webhookSettings,
                       Cur, "exitHook"))
    /\ exitCalls' = exitCalls + 1
    /\ stopped' = TRUE
    /\ UNCHANGED <<Settings, logCalls, now, diskFails, txtLog>>

Next == Log \/ Exit \/ WebhookResponse \/ ExitResponse \/ ProcessExit

Spec == Init /\ [][Next]_vars

\* ------------------------------------------------ the sinks of a dispatch
\* levels of the print methods once debug() is among them
DispatchLevels == {"INFO", "DEBUG"}

\* every way the three sinks can be switched: console on or off with or
\* without an ignore set, either file format on or off with or without an
\* ignore set, and the webhook on or off with or without a url and with the
\* supported provider or the default one ("")
DispatchChoices ==
    [stdoutEnable : BOOLEAN, ignoreLevels : {{}, {"DEBUG"}}]
      \X [path : {"./logs"}, splitBy : {"day"}, stratagy : {"single", "batch"},
          batch : {2}, txt : BOOLEAN, json : BOOLEAN,
          ignoreLevels : {{}, {"DEBUG"}}]
      \X [enable : BOOLEAN, url : {"undefined", "url"},
          form : {"discord", ""}]

InitDispatch == Started(DispatchChoices)

\* a call of info()/log() or of debug()
LogOrDebug ==
    /\ ~stopped
    /\ logCalls < MaxLogs
    /\ \E logLevel \in DispatchLevels :
         Commit(sendLog(formatSettings, storageSettings, webhookSettings,
                        Cur, logLevel))
    /\ logCalls' = logCalls + 1
    /\ UNCHANGED <<Settings, exitCalls, stopped, now, diskFails, txtLog>>

NextDispatch == LogOrDebug \/ WebhookResponse

SpecDispatch == InitDispatch /\ [][NextDispatch]_vars

\* ------------------------------------------------------------- liveness
\* the 500 ms timer of exit fires once it is set; whether and when the
\* webhook answers a request is up to the network
SpecTimerFair == Init /\ [][Next]_vars /\ WF_vars(ProcessExit)

\* ------------------------------------------------- the paths of the files
\* the values of splitBy that generatePaths has a case for
SplitValues ==
    {"don't split", "year", "month", "day", "hour", "minute", "second"}

\* every case of generatePaths and a value that falls to its default, in
\* single and in batch mode, without a webhook
PathChoices ==
    FormatChoices
      \X [path : {"./logs"}, splitBy : SplitValues \cup {"week"},
          stratagy : {"single", "batch"}, batch : {2}, txt : {TRUE},
          json : {TRUE}, ignoreLevels : {{"DEBUG"}}]
      \X {[enable |-> FALSE, url |-> "undefined", form |-> "discord"]}

InitPaths == Started(PathChoices)

\* the fields of an instant, most significant first
Stamp(t) == <<t.yyyy, t.mm, t.dd, t.HH, t.MM, t.ss>>

\* the instant a is earlier than the instant b
Earlier(a, b) ==
    \E k \in DOMAIN Stamp(a) :
       /\ Stamp(a)[k] < Stamp(b)[k]
       /\ \A j \in DOMAIN Stamp(a) : j < k => Stamp(a)[j] = Stamp(b)[j]

\* time passes between two handlers
Tick ==
    /\ ~stopped
    /\ \E t \in Times : Earlier(now, t) /\ now' = t
    /\ UNCHANGED <<Settings, logBuffer, webhookBuffer, nextId, stdout,
                   accepted, flushes, pushed, posts, rateReports, overflows,
                   logCalls, exitCalls, timers, stopped, stderr, dispatched,
                   diskFails, txtLog>>

NextPaths == Log \/ Tick \/ Exit \/ ProcessExit

SpecPaths == InitPaths /\ [][NextPaths]_vars

\* ------------------------------------------------- a disk that may fail
\* both file formats, single and batch mode, without a webhook and with a
\* working one
DiskChoices ==
    FormatChoices
      \X [path : {"./logs"}, splitBy : {"day"},
          stratagy : {"single", "batch"}, batch : {2}, txt : {TRUE},
          json : {TRUE}, ignoreLevels : {{"DEBUG"}}]
      \X { [enable |-> FALSE, url |-> "undefined", form |-> "discord"],
           [enable |-> TRUE,  url |-> "url",       form |-> "discord"] }

InitDisk == Started(DiskChoices)

\* the directory of the logs is lost or becomes unwritable, or is restored
DiskFault ==
    /\ ~stopped
    /\ diskFails' = ~diskFails
    /\ UNCHANGED <<Settings, logBuffer, webhookBuffer, nextId, stdout,
                   accepted, flushes, pushed, posts, rateReports, overflows,
                   logCalls, exitCalls, timers, stopped, stderr, dispatched,
                   now, txtLog>>

NextDisk == Log \/ DiskFault \/ WebhookResponse

SpecDisk == InitDisk /\ [][NextDisk]_vars

\* ------------------------------------------------- the text of a line
\* (a line with a dot whenever a process name is shown)
formTxtLogString_dotIfAny(show, mainProcess, subProcess, formattedDate, logMessage, logLevel, logDataString) ==
    (IF show.date THEN <<"[", formattedDate, "] ">> ELSE <<>>)
      \o (IF show.mainProgram \/ show.subProgram THEN <<"<">> ELSE <<>>)
      \o (IF show.mainProgram THEN <<mainProcess>> ELSE <<>>)
      \o (IF show.mainProgram \/ show.subProgram THEN <<".">> ELSE <<>>)
      \o (IF show.subProgram THEN <<subProcess>> ELSE <<>>)
      \o (IF show.mainProgram \/ show.subProgram THEN <<"> ">> ELSE <<>>)
      \o (IF show.level THEN <<"[", logLevel, "] ">> ELSE <<>>)
      \o <<logMessage>>
      \o (IF logDataString # "" THEN <<"\nLog Data:\n", logDataString>>
          ELSE <<>>)

\* formTxtLog as a string: the pieces that its += statements append, in
\* order ("" appends nothing)
formTxtLogString(show, mainProcess, subProcess, formattedDate, logMessage, logLevel, logDataString) ==
    (IF show.date THEN <<"[", formattedDate, "] ">> ELSE <<>>)
      \o (IF show.mainProgram \/ show.subProgram THEN <<"<">> ELSE <<>>)
      \o (IF show.mainProgram THEN <<mainProcess>> ELSE <<>>)
      \o (IF show.mainProgram /\ show.subProgram THEN <<".">> ELSE <<>>)
      \o (IF show.subProgram THEN <<subProcess>> ELSE <<>>)
      \o (IF show.mainProgram \/ show.subProgram THEN <<"> ">> ELSE <<>>)
      \o (IF show.level THEN <<"[", logLevel, "] ">> ELSE <<>>)
      \o <<logMessage>>
      \o (IF logDataString # "" THEN <<"\nLog Data:\n", logDataString>>
          ELSE <<>>)

\* formatSettings with every combination of the four show flags
ShowChoices ==
    [stdoutEnable : {TRUE}, ignoreLevels : {{"DEBUG"}}, date : BOOLEAN,
     mainProgram : BOOLEAN, subProgram : BOOLEAN, level : BOOLEAN]
      \X [path : {"./logs"}, splitBy : {"day"}, stratagy : {"single"},
          batch : {2}, txt : {TRUE}, json : {TRUE}, ignoreLevels : {{"DEBUG"}}]
      \X {[enable |-> FALSE, url |-> "undefined", form |-> "discord"]}

InitFormat == Started(ShowChoices)

\* the message and data strings handleLogDatatype hands to formTxtLog
LogMessages == {"started", "stopped"}
LogDataStrings == {"", "{port: 80}"}

\* sendLog computes the text line of a record
FormTxtLog ==
    /\ ~stopped
    /\ \E logMessage \in LogMessages, logLevel \in {"INFO", "ERROR"},
          logDataString \in LogDataStrings :
         txtLog' = [logMessage |-> logMessage, logLevel |-> logLevel,
                    logDataString |-> logDataString,
                    mainProcess |-> "main", subProcess |-> "sub",
                    formattedDate |-> "2024-06-20 17:39:05",
                    text |-> formTxtLogString(formatSettings, "main", "sub",
                               "2024-06-20 17:39:05", logMessage, logLevel,
                               logDataString)]
    /\ UNCHANGED <<Settings, logBuffer, webhookBuffer, nextId, stdout,
                   accepted, flushes, pushed, posts, rateReports, overflows,
                   logCalls, exitCalls, timers, stopped, stderr, dispatched,
                   now, diskFails>>

NextFormat == FormTxtLog

SpecFormat == InitFormat /\ [][NextFormat]_vars

\* ------------------------------------------------------------ observations
RECURSIVE Written(_, _)
\* what the append-mode write streams have put in one of the two log files
Written(fl, field) ==
    IF fl = <<>> THEN <<>>
    ELSE Written(SubSeq(fl, 1, Len(fl) - 1), field) \o fl[Len(fl)][field]

\* the text / JSON lines of the accepted records, in submission order
AcceptedTxt == [i \in 1..Len(accepted) |-> formTxtLog(accepted[i])]
AcceptedJson == [i \in 1..Len(accepted) |-> logJSONString(accepted[i])]

\* the text / JSON lines waiting in the file buffer, oldest first
BufferedTxt == [i \in 1..Len(logBuffer) |-> logBuffer[i].logTXT]
BufferedJson == [i \in 1..Len(logBuffer) |-> logBuffer[i].logJSONString]

EmbedIds(embeds) == {embeds[i].id : i \in DOMAIN embeds}

BatchMode == storageSettings.stratagy = "batch" /\ storageSettings.batch > 1

\* this step called fetch from sendWebhook
PostedBySendWebhook ==
    \E p \in DOMAIN posts' : p \notin DOMAIN posts /\ posts'[p].by = "sendWebhook"

\* this step settled the fetch p
Settles(p) == posts[p].status = "pending" /\ posts'[p].status # "pending"

\* ------------------------------------------------------------------ claims

\* C1: the webhook batch never holds more than 8 items; sendWebhook starts a
\* delivery in exactly the steps in which a submit brings the batch to 8
\* items, that delivery carries those 8 items, and the batch is empty right
\* after the delivery is started and after an overflow.
C1_BatchOfEight ==
    [][ /\ Len(webhookBuffer') <= WebhookFull
        /\ PostedBySendWebhook <=>
             (Len(pushed') > Len(pushed) /\ Len(webhookBuffer) + 1 = WebhookFull)
        /\ PostedBySendWebhook =>
             /\ webhookBuffer' = <<>>
             /\ posts'[Len(posts')].embeds =
                  Append(webhookBuffer, pushed'[Len(pushed')])
        /\ overflows' > overflows => webhookBuffer' = <<>> ]_vars

\* C1 witness: the 8th item has just been posted and the batch is empty
C1_Witness ==
    /\ Len(pushed) = WebhookFull
    /\ webhookBuffer = <<>>
    /\ \E p \in DOMAIN posts :
         posts[p].by = "sendWebhook" /\ posts[p].status = "pending"

\* C2 (as claimed): an item submitted after the POST of a full batch started
\* stays in the new batch whenever the response of that POST arrives, i.e. a
\* step that settles a fetch of sendWebhook leaves the batch as it is.
C2_NewBatchKeptOnResponse ==
    [][ \A p \in DOMAIN posts :
          (posts[p].by = "sendWebhook" /\ Settles(p))
            => webhookBuffer' = webhookBuffer ]_vars

\* C3: no FATALRATE record is ever pushed on the webhook batch or carried by
\* a POST, and a step that emits a FATALRATE record starts no POST.
C3_RateLimitedNeverInWebhook ==
    [][ /\ \A i \in DOMAIN pushed' : pushed'[i].level # "FATALRATE"
        /\ \A i \in DOMAIN webhookBuffer' : webhookBuffer'[i].level # "FATALRATE"
        /\ \A p \in DOMAIN posts' : \A i \in DOMAIN posts'[p].embeds :
             posts'[p].embeds[i].level # "FATALRATE"
        /\ Len(rateReports') > Len(rateReports) => Len(posts') = Len(posts)
      ]_vars

\* C3 witness: a delivery failed and its FATALRATE record went through sendLog
C3_Witness ==
    /\ webhookSettings.enable
    /\ rateReports # <<>>
    /\ \E i \in DOMAIN accepted : accepted[i].level = "FATALRATE"

\* C4: in batch mode with batchSize > 1 the lines written so far followed by
\* the lines still buffered are the lines of the accepted records in
\* submission order, and with the drain of a shutdown the lines written are
\* exactly the lines of the records accepted until then: every one once, in
\* order.
C4_FifoNoLossNoDuplication ==
    BatchMode =>
      /\ storageSettings.txt =>
           Written(flushes, "txt") \o BufferedTxt = AcceptedTxt
      /\ storageSettings.json =>
           Written(flushes, "json") \o BufferedJson = AcceptedJson
      /\ \A i \in DOMAIN flushes :
           flushes[i].by = "exit" =>
             /\ storageSettings.txt =>
                  Written(SubSeq(flushes, 1, i), "txt")
                    = SubSeq(AcceptedTxt, 1, flushes[i].upto)
             /\ storageSettings.json =>
                  Written(SubSeq(flushes, 1, i), "json")
                    = SubSeq(AcceptedJson, 1, flushes[i].upto)

\* C4 witness: a shutdown after a full batch was flushed drains a partial one
C4_Witness ==
    /\ BatchMode
    /\ storageSettings.txt /\ storageSettings.json
    /\ \E i \in DOMAIN flushes :
         /\ i > 1
         /\ flushes[i].by = "exit" /\ flushes[i].txt # <<>>
         /\ flushes[i].upto > storageSettings.batch
         /\ flushes[i - 1].by = "logToFile"

\* rounding up of n / b
CeilDiv(n, b) == (n + b - 1) \div b

\* flushes that wrote at least one line
NonEmptyFlushes ==
    Cardinality({i \in DOMAIN flushes :
                    flushes[i].txt # <<>> \/ flushes[i].json # <<>>})

\* this step is the first invocation of exit, under strategy = batch
FirstShutdown ==
    exitCalls = 0 /\ exitCalls' = 1 /\ storageSettings.stratagy = "batch"

\* C5 (as claimed): N accepted records and one shutdown give ceil(N/B) flush
\* operations, the forced one only for a non-empty remainder.
C5_CeilFlushes ==
    [][ (FirstShutdown /\ BatchMode
           /\ (storageSettings.txt \/ storageSettings.json))
          => Len(flushes') = CeilDiv(Len(accepted'), storageSettings.batch)
      ]_vars

\* C5 (amended): N accepted records and one shutdown give floor(N/B) + 1 flush
\* operations, the forced one at shutdown made whatever the remainder; the
\* flushes that write at least one line number ceil(N/B).
C5_FloorPlusForcedFlush ==
    [][ FirstShutdown
          => /\ Len(flushes') = (Len(accepted') \div storageSettings.batch) + 1
             /\ NonEmptyFlushes' = CeilDiv(Len(accepted'), storageSettings.batch)
      ]_vars

\* C5 witness: shut down with an empty remainder after a full batch
C5_Witness ==
    /\ BatchMode /\ exitCalls = 1
    /\ Len(accepted) = storageSettings.batch
    /\ Len(flushes) = 2
    /\ flushes[2].by = "exit" /\ flushes[2].txt = <<>>

\* the writes logToFile made record by record
SingleWrites == SelectSeq(flushes, LAMBDA f : f.kind = "single")

\* C6: with strategy = single, or batch with batchSize <= 1, every accepted
\* record has exactly one write of its own, which appends its text line iff
\* txt is set and its JSON line iff json is set, and nothing is ever buffered
\* (so no drain ever writes a line).
C6_OneWritePerRecord ==
    ~BatchMode =>
      /\ logBuffer = <<>>
      /\ Len(SingleWrites) = Len(accepted)
      /\ \A i \in DOMAIN SingleWrites :
           /\ SingleWrites[i].wroteTxt = storageSettings.txt
           /\ SingleWrites[i].wroteJson = storageSettings.json
           /\ SingleWrites[i].txt =
                IF storageSettings.txt THEN <<formTxtLog(accepted[i])>> ELSE <<>>
           /\ SingleWrites[i].json =
                IF storageSettings.json THEN <<logJSONString(accepted[i])>>
                ELSE <<>>
      /\ \A i \in DOMAIN flushes :
           flushes[i].kind = "extract"
             => flushes[i].txt = <<>> /\ flushes[i].json = <<>>

\* C6 witness: several records written one by one with the JSON file disabled
C6_Witness ==
    /\ ~BatchMode
    /\ storageSettings.txt /\ ~storageSettings.json
    /\ Len(accepted) >= 3
    /\ Len(SingleWrites) = Len(accepted)

\* C7 (as claimed): however often exit is invoked, no webhook item is
\* delivered in two requests.
C7_NoItemInTwoRequests ==
    \A p, q \in DOMAIN posts :
       (p # q /\ posts[p].by # "exitHook" /\ posts[q].by # "exitHook")
         => EmbedIds(posts[p].embeds) \cap EmbedIds(posts[q].embeds) = {}

\* C8: every invocation of exit by the running program under strategy = batch
\* leaves, in the same step (before its first suspension point), the file
\* buffer empty and every accepted record written, a partial batch included.
C8_ShutdownDrainsFileBuffer ==
    [][ (exitCalls' > exitCalls /\ ~stopped'
           /\ storageSettings.stratagy = "batch")
          => /\ logBuffer' = <<>>
             /\ storageSettings.txt => Written(flushes', "txt") = AcceptedTxt'
             /\ storageSettings.json => Written(flushes', "json") = AcceptedJson'
      ]_vars

\* C8 witness: exit has written a partial batch
C8_Witness ==
    /\ BatchMode
    /\ logBuffer = <<>>
    /\ \E i \in DOMAIN flushes :
         /\ flushes[i].by = "exit"
         /\ flushes[i].txt # <<>>
         /\ Len(flushes[i].txt) < storageSettings.batch

\* C9 (as claimed): once the delivery that exit attempted settles, the
\* webhook batch is empty whatever the outcome.
C9_BatchEmptyOnceSettled ==
    [][ \A p \in DOMAIN posts :
          (posts[p].by = "exit" /\ Settles(p)) => webhookBuffer' = <<>> ]_vars

\* FATALRATE records emitted about the fetch p
Reports(p) ==
    Cardinality({i \in DOMAIN rateReports : rateReports[i].about = p})

\* C10: a delivery of a full batch that ends with a status other than 204 or
\* with a transport failure is reported by exactly one FATALRATE record (a
\* pending or successful one by none), and its 8 items are neither in the
\* batch afterwards nor in any delivery attempted later.
C10_FailedBatchReportedOnceNeverRetried ==
    \A p \in DOMAIN posts :
       posts[p].by = "sendWebhook" =>
         /\ Len(posts[p].embeds) = WebhookFull
         /\ Reports(p) = IF posts[p].status \in {"other", "error"} THEN 1 ELSE 0
         /\ EmbedIds(posts[p].embeds) \cap EmbedIds(webhookBuffer) = {}
         /\ \A q \in DOMAIN posts :
              q > p => EmbedIds(posts[p].embeds) \cap EmbedIds(posts[q].embeds) = {}

\* C10 witness: a full batch failed in transport and a later delivery exists
C10_Witness ==
    \E p, q \in DOMAIN posts :
       /\ posts[p].by = "sendWebhook" /\ posts[p].status = "error"
       /\ q > p /\ posts[q].embeds # <<>>
       /\ Reports(p) = 1

\* ids of the records of a sequence of records, lines or embeds
Ids(seq) == {seq[i].id : i \in DOMAIN seq}

\* the records dispatched by calls of the print methods (the constructor
\* dispatches the first four)
UserRecords == {dispatched[i] : i \in {j \in DOMAIN dispatched : j > 4}}

\* C11: the console shows exactly one line for every dispatched record whose
\* level is outside the ignore set of the format settings while stdout is
\* enabled, in dispatch order, and no line for any other record, whatever
\* the file sink and the webhook sink are set to and do.
C11_ConsoleLineIffEnabledAndNotIgnored ==
    LET Shown(r) == /\ formatSettings.stdoutEnable
                    /\ r.level \notin formatSettings.ignoreLevels
        shown == SelectSeq(dispatched, Shown)
    IN stdout = [i \in 1..Len(shown) |-> formTxtLog(shown[i])]

\* C11 witness: with the file sink and the webhook sink both at work, a
\* debug() call left no console line and an info() call left one
C11_Witness ==
    /\ formatSettings.stdoutEnable
    /\ formatSettings.ignoreLevels = {"DEBUG"}
    /\ storageSettings.ignoreLevels = {} /\ storageSettings.txt
    /\ webhookSettings.enable /\ webhookSettings.url = "url"
    /\ webhookSettings.form = "discord"
    /\ \E d, i \in UserRecords :
         /\ d.level = "DEBUG" /\ i.level = "INFO"
         /\ d.id \notin Ids(stdout) /\ i.id \in Ids(stdout)
         /\ d.id \in Ids(accepted) /\ d.id \in Ids(pushed)

\* C12: the file sink takes a dispatched record exactly when a file format
\* is enabled and the level is outside the ignore set of the storage
\* settings (the ignore set of the format settings plays no part); no line
\* of any other record is in the file buffer or in a log file.
C12_FileSinkFilter ==
    LET Kept(r) == /\ storageSettings.txt \/ storageSettings.json
                   /\ r.level \notin storageSettings.ignoreLevels
        kept == SelectSeq(dispatched, Kept)
    IN /\ accepted = kept
       /\ Ids(BufferedTxt) \cup Ids(BufferedJson)
            \cup Ids(Written(flushes, "txt")) \cup Ids(Written(flushes, "json"))
            \subseteq Ids(kept)

\* C12 witness: DEBUG is ignored by the file sink only; a debug() call was
\* printed and left the file sink untouched while an info() call was kept
C12_Witness ==
    /\ formatSettings.stdoutEnable
    /\ formatSettings.ignoreLevels = {}
    /\ storageSettings.ignoreLevels = {"DEBUG"}
    /\ storageSettings.txt /\ storageSettings.json
    /\ \E d, i \in UserRecords :
         /\ d.level = "DEBUG" /\ i.level = "INFO"
         /\ d.id \in Ids(stdout) /\ d.id \notin Ids(accepted)
         /\ i.id \in Ids(accepted)

\* C13: the webhook sink takes a dispatched record exactly when the webhook
\* is enabled, a url is set, the provider is discord and the level is not
\* FATALRATE; with any of the three settings missing the batch stays empty
\* and no delivery is started, and no other record is in the batch or in a
\* delivery.
C13_WebhookTakesOnlyEligible ==
    LET Open == /\ webhookSettings.enable
                /\ webhookSettings.url # "undefined"
                /\ webhookSettings.form = "discord"
        Eligible(r) == Open /\ r.level # "FATALRATE"
        eligible == SelectSeq(dispatched, Eligible)
    IN /\ pushed = [i \in 1..Len(eligible) |-> newEmbed(eligible[i])]
       /\ ~Open => webhookBuffer = <<>> /\ posts = <<>>
       /\ Ids(webhookBuffer) \subseteq Ids(eligible)
       /\ \A p \in DOMAIN posts : Ids(posts[p].embeds) \subseteq Ids(eligible)

\* C13 witness: an enabled discord webhook without a url has seen as many
\* records as would fill a batch and holds nothing
C13_Witness ==
    /\ webhookSettings.enable
    /\ webhookSettings.url = "undefined"
    /\ webhookSettings.form = "discord"
    /\ Len(dispatched) >= WebhookFull
    /\ webhookBuffer = <<>> /\ posts = <<>>

\* C14: once exit() has been invoked, a call of a print method appends
\* nothing to the file buffer or the webhook batch, writes no file and
\* starts no webhook delivery.
C14_NothingAcceptedOnceShutdownBegan ==
    [][ (exitCalls >= 1 /\ logCalls' = logCalls + 1) =>
          /\ logBuffer' = logBuffer
          /\ webhookBuffer' = webhookBuffer
          /\ flushes' = flushes
          /\ posts' = posts ]_vars

\* C15: under stratagy "batch" with a batch size of 1 or less no record of
\* a print call is dispatched.
C15_NoDispatchUnderBatchOfOne ==
    (storageSettings.stratagy = "batch" /\ storageSettings.batch <= 1)
      => UserRecords = {}

\* the directory levels below the base path and the field of the file stem
\* that the table of buckets gives for a granularity
BucketDirFields(splitBy) ==
    CASE splitBy = "don't split" -> <<>>
      [] splitBy = "year"   -> <<>>
      [] splitBy = "month"  -> <<"yyyy">>
      [] splitBy = "day"    -> <<"yyyy", "mm">>
      [] splitBy = "hour"   -> <<"yyyy", "mm", "dd">>
      [] splitBy = "minute" -> <<"yyyy", "mm", "dd", "HH">>
      [] splitBy = "second" -> <<"yyyy", "mm", "dd", "HH", "MM">>

BucketDir(base, t, splitBy) ==
    IF BucketDirFields(splitBy) = <<>> THEN <<base, "/">>
    ELSE <<base, "/">> \o dateFormat(t, BucketDirFields(splitBy)) \o <<"/">>

BucketStem(t, splitBy) ==
    CASE splitBy = "don't split" -> <<"logs.">>
      [] splitBy = "year"   -> dateFormat(t, <<"yyyy">>) \o <<".">>
      [] splitBy = "month"  -> dateFormat(t, <<"mm">>) \o <<".">>
      [] splitBy = "day"    -> dateFormat(t, <<"dd">>) \o <<".">>
      [] splitBy = "hour"   -> dateFormat(t, <<"HH">>) \o <<".">>
      [] splitBy = "minute" -> dateFormat(t, <<"MM">>) \o <<".">>
      [] splitBy = "second" -> dateFormat(t, <<"ss">>) \o <<".">>

\* C16: for each of the seven granularities every file operation ensures
\* the directory the table gives for its timestamp and appends to the two
\* files named by the table's stem followed by txt.log and json.log inside
\* that directory (so directory and files depend on timestamp and splitBy
\* only).
C16_FilesOfTheBucketInsideItsDirectory ==
    storageSettings.splitBy \in SplitValues =>
      \A k \in DOMAIN flushes :
         LET f == flushes[k]
             dir == BucketDir(storageSettings.path, f.time,
                              storageSettings.splitBy)
             stem == BucketStem(f.time, storageSettings.splitBy)
         IN /\ f.dir = dir
            /\ f.txtFile = dir \o stem \o <<"txt.log">>
            /\ f.jsonFile = dir \o stem \o <<"json.log">>

\* the ERROR records dispatched by this step
ErrorsOfStep ==
    {i \in DOMAIN dispatched' :
        i \notin DOMAIN dispatched /\ dispatched'[i].level = "ERROR"}

\* C17: a print call under an enabled webhook with a url and a provider
\* other than discord dispatches exactly one internal ERROR record about
\* the provider and raises no exception.
C17_UnsupportedProviderReportedOnce ==
    [][ ( /\ webhookSettings.enable
          /\ webhookSettings.url # "undefined"
          /\ webhookSettings.form # "discord"
          /\ logCalls' = logCalls + 1 )
        => (Cardinality(ErrorsOfStep) = 1 /\ stderr' = stderr) ]_vars

\* C18: a print call whose record makes the file sink compute a path under
\* an unrecognised splitBy dispatches exactly one internal ERROR record and
\* raises no exception, in single and in batch mode.
C18_InvalidSplitReportedOnce ==
    [][ ( /\ storageSettings.splitBy \notin SplitValues
          /\ logCalls' = logCalls + 1
          /\ flushes' # flushes )
        => (Cardinality(ErrorsOfStep) = 1 /\ stderr' = stderr) ]_vars

\* C19: every invocation of exit() is followed by process.exit(), whatever
\* the webhook does with the request exit() sends, including never
\* answering it.
C19_ShutdownReachesStopped == (exitCalls > 0) ~> stopped

\* C20: when process.exit() is called no fetch is pending and the file
\* buffer and the webhook batch are empty (so a FATALRATE record about an
\* earlier delivery is not waiting in the file buffer).
C20_NothingLeftWhenToldToTerminate ==
    [][ (~stopped /\ stopped') =>
          /\ \A p \in DOMAIN posts : posts[p].status # "pending"
          /\ logBuffer = <<>>
          /\ webhookBuffer = <<>> ]_vars

\* C25: between two handlers the webhook batch holds at most 7 items, the
\* length > 8 branch of sendWebhook has never been taken and no FATALRATE
\* record reports an overflow.
C25_OverflowUnreachable ==
    /\ Len(webhookBuffer) < WebhookFull
    /\ overflows = 0
    /\ \A i \in DOMAIN rateReports : rateReports[i].about # 0

\* C25 witness: a submit brought the batch to 8 items and sent them, and a
\* later submit started the next batch
C25_Witness ==
    /\ \E p \in DOMAIN posts :
          posts[p].by = "sendWebhook" /\ Len(posts[p].embeds) = WebhookFull
    /\ Len(pushed) > WebhookFull
    /\ webhookBuffer # <<>>

\* C26: with the webhook enabled, a url set and the provider discord, every
\* dispatched record other than a FATALRATE one has been pushed on the
\* webhook batch even if its level is in the ignore sets of the console and
\* of the file sink, and the first delivery goes out with the first eight
\* such records, ignored levels included.
C26_WebhookIgnoresNoLevel ==
    LET Open == /\ webhookSettings.enable
                /\ webhookSettings.url # "undefined"
                /\ webhookSettings.form = "discord"
        Sendable(r) == r.level # "FATALRATE"
        sendable == SelectSeq(dispatched, Sendable)
    IN Open =>
         /\ \A i \in DOMAIN dispatched :
               ( /\ dispatched[i].level \in formatSettings.ignoreLevels
                 /\ dispatched[i].level \in storageSettings.ignoreLevels )
               => dispatched[i].id \in Ids(pushed)
         /\ Len(sendable) >= WebhookFull =>
               /\ posts # <<>>
               /\ posts[1].embeds =
                    [i \in 1..WebhookFull |-> newEmbed(sendable[i])]

\* C26 witness: under the default ignore sets a delivery went out carrying
\* a settings dump of the constructor and the record of a debug() call,
\* neither of which was printed or accepted by the file sink
C26_Witness ==
    /\ webhookSettings.enable /\ webhookSettings.url = "url"
    /\ webhookSettings.form = "discord"
    /\ formatSettings.ignoreLevels = {"DEBUG"}
    /\ storageSettings.ignoreLevels = {"DEBUG"}
    /\ posts # <<>>
    /\ \E i, j \in DOMAIN posts[1].embeds :
          /\ posts[1].embeds[i].level = "DEBUG" /\ posts[1].embeds[i].id <= 4
          /\ posts[1].embeds[j].level = "DEBUG" /\ posts[1].embeds[j].id > 4
          /\ posts[1].embeds[j].id \notin Ids(stdout) \cup Ids(accepted)

\* the path file ends with the pieces of tail
EndsWith(file, tail) ==
    /\ Len(file) >= Len(tail)
    /\ SubSeq(file, Len(file) - Len(tail) + 1, Len(file)) = tail

\* the text lines of the records the file sink accepted in this step
NewlyAcceptedTxt ==
    [i \in 1..(Len(accepted') - Len(accepted)) |->
       formTxtLog(accepted'[Len(accepted) + i])]

\* C23: a call that drains the file buffer (a submit that reaches the batch
\* size, or exit) drains it with one extractBuffer, which appends all the
\* buffered lines at once, one append per enabled format, to the files
\* whose directory and stem the table gives for the instant of that call.
C23_DrainUsesBucketOfDrainingCall ==
    [][ ( /\ storageSettings.splitBy \in SplitValues
          /\ Len(flushes') > Len(flushes)
          /\ flushes'[Len(flushes')].kind = "extract" )
        => LET f == flushes'[Len(flushes')] IN
           /\ Len(flushes') = Len(flushes) + 1
           /\ f.time = now
           /\ f.dir = BucketDir(storageSettings.path, now,
                                storageSettings.splitBy)
           /\ EndsWith(f.txtFile,
                       BucketStem(now, storageSettings.splitBy)
                         \o <<"txt.log">>)
           /\ EndsWith(f.jsonFile,
                       BucketStem(now, storageSettings.splitBy)
                         \o <<"json.log">>)
           /\ f.wroteTxt = storageSettings.txt
           /\ f.wroteJson = storageSettings.json
           /\ storageSettings.txt => f.txt = BufferedTxt \o NewlyAcceptedTxt
           /\ logBuffer' = <<>> ]_vars

\* C23 witness: split by minute, a drain went to the bucket of its own
\* minute with the line of a record dispatched in an earlier minute
C23_Witness ==
    /\ storageSettings.splitBy = "minute"
    /\ \E k \in DOMAIN flushes :
          /\ flushes[k].kind = "extract"
          /\ \E i \in DOMAIN flushes[k].txt, a \in DOMAIN accepted :
                /\ accepted[a].id = flushes[k].txt[i].id
                /\ accepted[a].time.MM # flushes[k].time.MM
                /\ EndsWith(flushes[k].txtFile,
                            BucketStem(flushes[k].time, "minute")
                              \o <<"txt.log">>)

\* C21: a print call under a working webhook (enabled, url set, provider
\* discord) pushes its record on the webhook batch whether or not the file
\* sink could write, and returns.
C21_FileFailureKeepsWebhook ==
    [][ ( /\ webhookSettings.enable
          /\ webhookSettings.url # "undefined"
          /\ webhookSettings.form = "discord"
          /\ logCalls' = logCalls + 1 )
        => /\ Len(dispatched') > Len(dispatched)
           /\ dispatched'[Len(dispatched) + 1].id \in Ids(pushed') ]_vars

\* C22: in batch mode the file buffer holds fewer records than the batch
\* size between two handlers, whether or not the flushes succeed.
C22_BufferBelowBatchSize ==
    BatchMode => Len(logBuffer) < storageSettings.batch

RECURSIVE IsSubsequence(_, _)
\* a is b with some of its elements left out
IsSubsequence(a, b) ==
    IF a = <<>> THEN TRUE
    ELSE IF b = <<>> THEN FALSE
    ELSE IF Head(a) = Head(b) THEN IsSubsequence(Tail(a), Tail(b))
    ELSE IsSubsequence(a, Tail(b))

\* the pieces of a rendered line
Pieces(text) == {text[i] : i \in DOMAIN text}

\* C24: the text line is the sequence date, "<", main process, ".", sub
\* process, "> ", level, message, data section with some segments left
\* out and none moved: the date, the names and the level are there iff
\* their flag is set, "." iff both names are shown, "<" and "> " iff a name
\* is shown, the message always and the Log Data section iff the data
\* string is not empty.
C24_TextLineAssembly ==
    txtLog # <<>> =>
      LET t == txtLog.text
          show == formatSettings
      IN /\ IsSubsequence(t,
               <<"[", txtLog.formattedDate, "] ", "<", txtLog.mainProcess, ".",
                 txtLog.subProcess, "> ", "[", txtLog.logLevel, "] ",
                 txtLog.logMessage, "\nLog Data:\n", txtLog.logDataString>>)
         /\ txtLog.formattedDate \in Pieces(t) <=> show.date
         /\ txtLog.mainProcess \in Pieces(t) <=> show.mainProgram
         /\ txtLog.subProcess \in Pieces(t) <=> show.subProgram
         /\ txtLog.logLevel \in Pieces(t) <=> show.level
         /\ "." \in Pieces(t) <=> (show.mainProgram /\ show.subProgram)
         /\ "<" \in Pieces(t) <=> (show.mainProgram \/ show.subProgram)
         /\ "> " \in Pieces(t) <=> (show.mainProgram \/ show.subProgram)
         /\ txtLog.logMessage \in Pieces(t)
         /\ "\nLog Data:\n" \in Pieces(t) <=> txtLog.logDataString # ""
         /\ txtLog.logDataString # "" => txtLog.logDataString \in Pieces(t)

\* C24 witness: a line with data rendered with the sub process hidden and
\* the date hidden
C24_Witness ==
    /\ txtLog # <<>>
    /\ formatSettings.mainProgram /\ ~formatSettings.subProgram
    /\ ~formatSettings.date /\ formatSettings.level
    /\ txtLog.logDataString # ""
    /\ txtLog.text = <<"<", "main", "> ", "[", txtLog.logLevel, "] ",
                       txtLog.logMessage, "\nLog Data:\n",
                       txtLog.logDataString>>

====
